---------------------------- MODULE Spec2Model ----------------------------
(***************************************************************************)
(* A model of cons-list (src/lib.rs): an immutable singly-linked list      *)
(* whose nodes are shared through Rc.  The heap of Rc<Node<T>> boxes is    *)
(* explicit (with each box's strong count), a ConsList handle is the pair  *)
(* (front, length), and every method of the crate is an operator that     *)
(* maps a heap and its arguments to a new heap and its result.             *)
(***************************************************************************)
EXTENDS Integers, Sequences, FiniteSets, Bags

VARIABLES heap, lists, last, it, out, cmp

vars == <<heap, lists, last, it, out, cmp>>

---------------------------------------------------------------------------
(* Bounds of the model. *)

\* ConsList handles and Rc<Node> boxes alive at any one time in Spec
MaxObjects == 5
\* the comparable element values of CmpSpec and IterSpec are 1..MaxElem
MaxElem == 2
\* length of the two lists compared in CmpSpec
MaxLen == 2
\* length of the list iterated in IterSpec
MaxIterLen == 3
\* calls of next() made after an iterator is exhausted
MaxExtra == 2

---------------------------------------------------------------------------
(* Values. *)

Max(a, b) == IF a >= b THEN a ELSE b
Min(S) == CHOOSE x \in S : \A y \in S : x <= y

\* Option::None of Option<Rc<Node<T>>> and Option<&Node<T>>
None == 0
\* the f64 NaN of the tests: an element that compares with nothing
NaN == -1

\* The methods of Spec never look at an element (T is unconstrained there):
\* two values tell the positions of a list apart.
Elems == {1, 2}
\* The elements compared: ordered values and NaN
CmpElems == (1..MaxElem) \cup {NaN}
\* addresses of the heap: enough for each specification
HeapCap == Max(Max(MaxObjects, 2 * MaxLen), MaxIterLen)
NodeIds == 1..HeapCap


SeqsUpTo(S, n) == UNION {[1..k -> S] : k \in 0..n}

RECURSIVE Reverse(_)
Reverse(s) == IF s = <<>> THEN <<>> ELSE Append(Reverse(Tail(s)), Head(s))

---------------------------------------------------------------------------
(* The heap of Rc<Node<T>> boxes. *)

\* an address that holds no box
FreeNode == [alloc |-> FALSE, elem |-> None, next |-> None, strong |-> 0]

\* struct Node { elem, next } inside an Rc box with its strong count
NodeBox(elem, next) == [alloc |-> TRUE, elem |-> elem, next |-> next, strong |-> 1]

EmptyHeap == [id \in NodeIds |-> FreeNode]

Allocated(h) == {id \in NodeIds : h[id].alloc}

\* struct ConsList { front, length }
Handle(front, length) == [front |-> front, length |-> length]

\* Rc::new(node): a fresh box with strong count 1
RcNew(h, elem, next) ==
    LET id == Min(NodeIds \ Allocated(h))
    IN [heap |-> [h EXCEPT ![id] = NodeBox(elem, next)], ptr |-> id]

\* Option<Rc<Node>>::clone: one more strong reference to the same box
RcClone(h, p) ==
    IF p = None THEN h ELSE [h EXCEPT ![p].strong = @ + 1]

\* a node destroyed: its address, its next link at that moment, and the depth
\* of the destructor call that destroyed it (0: not inside another node's)
Destroyed(id, next, level) == [node |-> id, next |-> next, level |-> level]

\* The drop glue of Option<Rc<Node>>, called at destructor depth level:
\* release one strong reference; the last one destroys the node in place,
\* and the node's destructor drops the node's own next link, one level deeper.
RECURSIVE RcDrop(_, _, _)
RcDrop(h, p, level) ==
    IF p = None \/ ~h[p].alloc
    THEN [heap |-> h, destroyed |-> {}]
    ELSE IF h[p].strong > 1
    THEN [heap |-> [h EXCEPT ![p].strong = @ - 1], destroyed |-> {}]
    ELSE LET inner == RcDrop([h EXCEPT ![p] = FreeNode], h[p].next, level + 1)
         IN [heap |-> inner.heap,
             destroyed |-> inner.destroyed \cup {Destroyed(p, h[p].next, level)}]

---------------------------------------------------------------------------
(* What a handle denotes. *)

\* the node addresses met from p by following next links (at most fuel of them)
RECURSIVE ChainNodes(_, _, _)
ChainNodes(h, p, fuel) ==
    IF p = None \/ fuel = 0 THEN <<>>
    ELSE <<p>> \o ChainNodes(h, h[p].next, fuel - 1)

NodesOf(h, p) == ChainNodes(h, p, HeapCap + 1)

NodeSet(h, p) == LET ns == NodesOf(h, p) IN {ns[i] : i \in 1..Len(ns)}

\* the front-to-back sequence of elements of the list at p
ElemsOf(h, p) == LET ns == NodesOf(h, p) IN [i \in 1..Len(ns) |-> h[ns[i]].elem]

ListSeq(h, l) == ElemsOf(h, l.front)

\* the live handles are a bag ls of ConsList values: clones are equal values
LiveHandles(ls) == BagToSet(ls)

\* the nodes some live handle reaches
Reach(h, ls) == UNION {NodeSet(h, l.front) : l \in LiveHandles(ls)}

\* the number of strong references to node id: handles and nodes' next links
Referrers(h, ls, id) ==
    BagCardinality([l \in {x \in LiveHandles(ls) : x.front = id} |-> ls[l]])
    + Cardinality({n \in Allocated(h) : h[n].next = id})

---------------------------------------------------------------------------
(* The methods of ConsList.  Each maps the heap and its arguments to the   *)
(* heap after the call and the handle returned; panicked says that an      *)
(* unwrap() met None.                                                      *)

Returned(h, l) == [heap |-> h, list |-> l, panicked |-> FALSE]
Panicked(h) == [heap |-> h, list |-> Handle(None, 0), panicked |-> TRUE]

\* ConsList::new
ListNew == Handle(None, 0)

\* ConsList::len
ListLen(l) == l.length

\* ConsList::head: <<>> for None, <<e>> for Some(&e)
ListHead(h, l) == IF l.front = None THEN <<>> ELSE <<h[l.front].elem>>

\* append that forgets to count the new node
AppendStaleLength(h, l, elem) ==
    LET h1 == RcClone(h, l.front)
        r == RcNew(h1, elem, l.front)
    IN Returned(r.heap, Handle(r.ptr, ListLen(l)))

\* append that links the new node to the second node of the list
AppendSkipsFront(h, l, elem) ==
    LET second == IF l.front = None THEN None ELSE h[l.front].next
        h1 == RcClone(h, second)
        r == RcNew(h1, elem, second)
    IN Returned(r.heap, Handle(r.ptr, ListLen(l) + 1))

\* ConsList::append
ListAppend(h, l, elem) ==
    LET h1 == RcClone(h, l.front)
        r == RcNew(h1, elem, l.front)
    IN Returned(r.heap, Handle(r.ptr, ListLen(l) + 1))

\* the loop of tailn: n times head = head.unwrap().next.as_ref()
RECURSIVE Walk(_, _, _)
Walk(h, head, n) ==
    IF n = 0 THEN [ok |-> TRUE, ptr |-> head]
    ELSE IF head = None THEN [ok |-> FALSE, ptr |-> None]
    ELSE Walk(h, h[head].next, n - 1)

\* tailn that tests len < n instead of len <= n
TailnOffByOne(h, l, n) ==
    IF ListLen(l) < n
    THEN Returned(h, ListNew)
    ELSE LET len == ListLen(l) - n
             w == Walk(h, l.front, n)
         IN IF ~w.ok \/ w.ptr = None
            THEN Panicked(h)
            ELSE Returned(RcClone(h, w.ptr), Handle(w.ptr, len))

\* ConsList::tailn
ListTailn(h, l, n) ==
    IF ListLen(l) <= n
    THEN Returned(h, ListNew)
    ELSE LET len == ListLen(l) - n
             w == Walk(h, l.front, n)
         IN IF ~w.ok \/ w.ptr = None
            THEN Panicked(h)
            ELSE Returned(RcClone(h, w.ptr), Handle(w.ptr, len))

\* ConsList::tail
ListTail(h, l) == ListTailn(h, l, 1)

\* Clone for ConsList
ListClone(h, l) == Returned(RcClone(h, l.front), Handle(l.front, l.length))

\* ConsList::lastn
ListLastn(h, l, n) ==
    IF n >= l.length
    THEN ListClone(h, l)
    ELSE ListTailn(h, l, l.length - n)

NoDrop == [visited |-> 0, destroyed |-> {}]

\* a drop loop that walks the whole list and releases every node it meets,
\* shared or not
RECURSIVE DropLoopEager(_, _, _)
DropLoopEager(h, head, acc) ==
    IF head = None \/ ~h[head].alloc
    THEN [heap |-> h, visited |-> acc.visited, destroyed |-> acc.destroyed]
    ELSE DropLoopEager([h EXCEPT ![head] = FreeNode], h[head].next,
                       [visited |-> acc.visited + 1,
                        destroyed |-> acc.destroyed \cup {Destroyed(head, None, 0)}])

\* The loop of Drop for ConsList, from head on.  Rc::try_unwrap succeeds on a
\* strong count of 1: the box is released and the node moved out, its next
\* link is taken (left None) and the node is dropped at the end of the match
\* arm; otherwise the Rc comes back in Err, is dropped (one reference fewer),
\* and drop returns.  visited counts the nodes the loop looked at.
RECURSIVE DropLoop(_, _, _)
DropLoop(h, head, acc) ==
    IF head = None
    THEN [heap |-> h, visited |-> acc.visited, destroyed |-> acc.destroyed]
    ELSE IF h[head].alloc /\ h[head].strong = 1
    THEN LET succ == h[head].next
             taken == None
             gone == RcDrop([h EXCEPT ![head] = FreeNode], taken, 1)
         IN DropLoop(gone.heap, succ,
                     [visited |-> acc.visited + 1,
                      destroyed |-> acc.destroyed \cup gone.destroyed
                                       \cup {Destroyed(head, taken, 0)}])
    ELSE LET d == RcDrop(h, head, 0)
         IN [heap |-> d.heap,
             visited |-> acc.visited + 1,
             destroyed |-> acc.destroyed \cup d.destroyed]

\* a ConsList without its Drop impl: the derived drop glue of the front field
ListDropDerived(h, l) ==
    LET d == RcDrop(h, l.front, 0)
    IN [heap |-> d.heap,
        visited |-> IF l.front = None THEN 0 ELSE 1,
        destroyed |-> d.destroyed]

\* Drop for ConsList: head = self.front.take(), then the loop
ListDrop(h, l) == DropLoop(h, l.front, NoDrop)

\* FromIterator for ConsList: list = list.append(elem) for each elem in order;
\* the assignment drops the handle list held before.
RECURSIVE FromIterLoop(_, _, _)
FromIterLoop(h, list, input) ==
    IF input = <<>>
    THEN Returned(h, list)
    ELSE LET a == ListAppend(h, list, Head(input))
             d == ListDrop(a.heap, list)
         IN FromIterLoop(d.heap, a.list, Tail(input))

\* from_iter that keeps the input's order
FromIterInOrder(h, input) == FromIterLoop(h, ListNew, Reverse(input))

FromIter(h, input) == FromIterLoop(h, ListNew, input)

\* tests::list_from: v.iter().rev()...collect(), the list that reads as v
ListFrom(h, v) == FromIter(h, Reverse(v))

---------------------------------------------------------------------------
(* Iter, and the traits built on it. *)

\* struct Iter { head, nelem }
Iter(head, nelem) == [head |-> head, nelem |-> nelem]

\* ConsList::iter
ListIter(l) == Iter(l.front, ListLen(l))

\* next() that counts down before it looks at head
IterNextAlwaysCounts(h, i) ==
    IF i.head = None
    THEN [iter |-> Iter(None, i.nelem - 1), item |-> <<>>]
    ELSE [iter |-> Iter(h[i.head].next, i.nelem - 1), item |-> <<h[i.head].elem>>]

\* Iterator::next for Iter: the iterator after the call and the item
\* returned, <<>> for None and <<e>> for Some(&e).  nelem is a usize: a
\* value below 0 here is an underflow of the subtraction.
IterNext(h, i) ==
    IF i.head = None
    THEN [iter |-> Iter(None, i.nelem), item |-> <<>>]
    ELSE [iter |-> Iter(h[i.head].next, i.nelem - 1), item |-> <<h[i.head].elem>>]

\* Iterator::size_hint for Iter: (nelem, Some(nelem))
IterSizeHint(i) == <<i.nelem, <<i.nelem>>>>

\* x == y and x != y on elements (f64: NaN equals nothing, not even itself)
ElemEq(x, y) == x # NaN /\ y # NaN /\ x = y
ElemNe(x, y) == ~ElemEq(x, y)

\* x.partial_cmp(&y) on elements: "None" when either is NaN
ElemPartialCmp(x, y) ==
    IF x = NaN \/ y = NaN THEN "None"
    ELSE IF x < y THEN "Less"
    ELSE IF x > y THEN "Greater"
    ELSE "Equal"

\* a.zip(b).all(|(x, y)| x == y): zip asks a, then b, and ends at the first
\* None; all ends at the first false
RECURSIVE ZipAllEq(_, _, _)
ZipAllEq(h, a, b) ==
    LET ra == IterNext(h, a)
    IN IF ra.item = <<>> THEN TRUE
       ELSE LET rb == IterNext(h, b)
            IN IF rb.item = <<>> THEN TRUE
               ELSE IF ~ElemEq(ra.item[1], rb.item[1]) THEN FALSE
               ELSE ZipAllEq(h, ra.iter, rb.iter)

\* a.zip(b).all(|(x, y)| x != y)
RECURSIVE ZipAllNe(_, _, _)
ZipAllNe(h, a, b) ==
    LET ra == IterNext(h, a)
    IN IF ra.item = <<>> THEN TRUE
       ELSE LET rb == IterNext(h, b)
            IN IF rb.item = <<>> THEN TRUE
               ELSE IF ~ElemNe(ra.item[1], rb.item[1]) THEN FALSE
               ELSE ZipAllNe(h, ra.iter, rb.iter)

\* PartialEq::eq for ConsList
ListEq(h, a, b) ==
    ListLen(a) = ListLen(b) /\ ZipAllEq(h, ListIter(a), ListIter(b))

\* PartialEq::ne for ConsList
ListNe(h, a, b) ==
    ListLen(a) # ListLen(b) \/ ZipAllNe(h, ListIter(a), ListIter(b))

\* the loop of partial_cmp
RECURSIVE PartialCmpLoop(_, _, _)
PartialCmpLoop(h, a, b) ==
    LET ra == IterNext(h, a)
        rb == IterNext(h, b)
    IN IF ra.item = <<>> /\ rb.item = <<>> THEN "Equal"
       ELSE IF ra.item = <<>> THEN "Less"
       ELSE IF rb.item = <<>> THEN "Greater"
       ELSE LET c == ElemPartialCmp(ra.item[1], rb.item[1])
            IN IF c = "Equal" THEN PartialCmpLoop(h, ra.iter, rb.iter) ELSE c

\* a partial_cmp loop that steps over an incomparable pair as over an equal one
RECURSIVE PartialCmpLoopSkipsNone(_, _, _)
PartialCmpLoopSkipsNone(h, a, b) ==
    LET ra == IterNext(h, a)
        rb == IterNext(h, b)
    IN IF ra.item = <<>> /\ rb.item = <<>> THEN "Equal"
       ELSE IF ra.item = <<>> THEN "Less"
       ELSE IF rb.item = <<>> THEN "Greater"
       ELSE LET c == ElemPartialCmp(ra.item[1], rb.item[1])
            IN IF c \in {"Equal", "None"}
               THEN PartialCmpLoopSkipsNone(h, ra.iter, rb.iter)
               ELSE c

\* partial_cmp that steps over incomparable pairs
PartialCmpSkipsNone(h, a, b) == PartialCmpLoopSkipsNone(h, ListIter(a), ListIter(b))

\* partial_cmp that orders lists of different lengths by length alone
PartialCmpLengthFirst(h, a, b) ==
    IF ListLen(a) < ListLen(b) THEN "Less"
    ELSE IF ListLen(a) > ListLen(b) THEN "Greater"
    ELSE PartialCmpLoop(h, ListIter(a), ListIter(b))

\* PartialOrd::partial_cmp for ConsList: "Less", "Equal", "Greater" for
\* Some(..) and "None"
ListPartialCmp(h, a, b) == PartialCmpLoop(h, ListIter(a), ListIter(b))

\* a < b, a <= b, a > b, a >= b: the provided methods of PartialOrd, each a
\* match on partial_cmp
ListLt(h, a, b) == ListPartialCmp(h, a, b) = "Less"
ListLe(h, a, b) == ListPartialCmp(h, a, b) \in {"Less", "Equal"}
ListGt(h, a, b) == ListPartialCmp(h, a, b) = "Greater"
ListGe(h, a, b) == ListPartialCmp(h, a, b) \in {"Greater", "Equal"}

---------------------------------------------------------------------------
(* The program using the library: handles are created by new, append,     *)
(* tail, tailn, lastn, clone and from_iter, and dropped, in any order.     *)
(* lists is the bag of live handles; last records the call just made and   *)
(* the state it was made in.                                               *)

NoArg == Handle(None, 0)

Call(op, src, dst, n, elem, input, panicked, d) ==
    [op |-> op, src |-> src, dst |-> dst, n |-> n, elem |-> elem,
     input |-> input, panicked |-> panicked,
     visited |-> d.visited, destroyed |-> d.destroyed,
     pre |-> [heap |-> heap, lists |-> lists]]

\* it: the iterator of IterSpec and the list it borrows; out: what its
\* next() calls returned; cmp: the comparison made last in CmpSpec
NoIter == [live |-> FALSE, src |-> NoArg, iter |-> Iter(None, 0)]
NoCmp == [op |-> "none", a |-> NoArg, b |-> NoArg, res |-> FALSE]

Init ==
    /\ heap = EmptyHeap
    /\ lists = EmptyBag
    /\ last = Call("init", NoArg, NoArg, 0, None, <<>>, FALSE, NoDrop)
    /\ it = NoIter
    /\ out = <<>>
    /\ cmp = NoCmp

\* what the budget leaves for new handles and nodes
ObjectsLeft == MaxObjects - BagCardinality(lists) - Cardinality(Allocated(heap))

\* the handle a call returned becomes a live handle, unless the call panicked
Bind(r) ==
    /\ heap' = IF r.panicked THEN heap ELSE r.heap
    /\ lists' = IF r.panicked THEN lists ELSE lists (+) SetToBag({r.list})
    /\ UNCHANGED <<it, out, cmp>>

\* let d = ConsList::new();
New ==
    /\ ObjectsLeft >= 1
    /\ Bind(Returned(heap, ListNew))
    /\ last' = Call("new", NoArg, ListNew, 0, None, <<>>, FALSE, NoDrop)

\* let d = s.append(elem);
DoAppend(s, elem) ==
    /\ ObjectsLeft >= 2
    /\ LET r == ListAppend(heap, s, elem)
       IN /\ Bind(r)
          /\ last' = Call("append", s, r.list, 0, elem, <<>>, r.panicked, NoDrop)

\* let d = s.tail();
DoTail(s) ==
    /\ ObjectsLeft >= 1
    /\ LET r == ListTail(heap, s)
       IN /\ Bind(r)
          /\ last' = Call("tail", s, r.list, 1, None, <<>>, r.panicked, NoDrop)

\* let d = s.tailn(n);
DoTailn(s, n) ==
    /\ ObjectsLeft >= 1
    /\ LET r == ListTailn(heap, s, n)
       IN /\ Bind(r)
          /\ last' = Call("tailn", s, r.list, n, None, <<>>, r.panicked, NoDrop)

\* let d = s.lastn(n);
DoLastn(s, n) ==
    /\ ObjectsLeft >= 1
    /\ LET r == ListLastn(heap, s, n)
       IN /\ Bind(r)
          /\ last' = Call("lastn", s, r.list, n, None, <<>>, r.panicked, NoDrop)

\* let d = s.clone();
DoClone(s) ==
    /\ ObjectsLeft >= 1
    /\ LET r == ListClone(heap, s)
       IN /\ Bind(r)
          /\ last' = Call("clone", s, r.list, 0, None, <<>>, r.panicked, NoDrop)

\* let d: ConsList<T> = input.into_iter().collect();
DoFromIter(input) ==
    /\ ObjectsLeft >= Len(input) + 1
    /\ LET r == FromIter(heap, input)
       IN /\ Bind(r)
          /\ last' = Call("from_iter", NoArg, r.list, 0, None, input, r.panicked, NoDrop)

\* drop(s);
DoDrop(s) ==
    /\ LET d == ListDrop(heap, s)
       IN /\ heap' = d.heap
          /\ lists' = lists (-) SetToBag({s})
          /\ last' = Call("drop", s, NoArg, 0, None, <<>>, FALSE, d)
    /\ UNCHANGED <<it, out, cmp>>

\* the counts tailn and lastn of l are called with: 0 to one past the length
\* (the code compares n with the length and walks n links, no more)
Counts(l) == 0..(ListLen(l) + 1)

Next ==
    \/ New
    \/ \E s \in LiveHandles(lists), elem \in Elems : DoAppend(s, elem)
    \/ \E s \in LiveHandles(lists) : DoTail(s)
    \/ \E s \in LiveHandles(lists) : \E n \in Counts(s) : DoTailn(s, n)
    \/ \E s \in LiveHandles(lists) : \E n \in Counts(s) : DoLastn(s, n)
    \/ \E s \in LiveHandles(lists) : DoClone(s)
    \/ \E input \in SeqsUpTo(Elems, MaxObjects - 1) : DoFromIter(input)
    \/ \E s \in LiveHandles(lists) : DoDrop(s)

Spec == Init /\ [][Next]_vars

---------------------------------------------------------------------------
(* IterSpec: a list that reads as any v of up to MaxIterLen elements, an   *)
(* iterator made over it, and next() called on it, past its end too.       *)

IterInit ==
    \E v \in SeqsUpTo(CmpElems, MaxIterLen) :
        LET r == ListFrom(EmptyHeap, v)
        IN /\ heap = r.heap
           /\ lists = SetToBag({r.list})
           /\ last = Call("init", NoArg, NoArg, 0, None, <<>>, FALSE, NoDrop)
           /\ it = NoIter
           /\ out = <<>>
           /\ cmp = NoCmp

\* let mut it = l.iter();
DoIter(l) ==
    /\ it' = [live |-> TRUE, src |-> l, iter |-> ListIter(l)]
    /\ out' = <<>>
    /\ UNCHANGED <<heap, lists, last, cmp>>

\* it.next();
DoNext ==
    /\ it.live
    /\ Len(out) < ListLen(it.src) + MaxExtra
    /\ LET r == IterNext(heap, it.iter)
       IN /\ it' = [it EXCEPT !.iter = r.iter]
          /\ out' = Append(out, r.item)
    /\ UNCHANGED <<heap, lists, last, cmp>>

IterNextStep ==
    \/ \E l \in LiveHandles(lists) : DoIter(l)
    \/ DoNext

IterSpec == IterInit /\ [][IterNextStep]_vars

---------------------------------------------------------------------------
(* CmpSpec: two lists that read as any va and vb of up to MaxLen elements, *)
(* NaN among them, and ==, != and partial_cmp applied to them.             *)

CmpInit ==
    \E va, vb \in SeqsUpTo(CmpElems, MaxLen) :
        LET ra == ListFrom(EmptyHeap, va)
            rb == ListFrom(ra.heap, vb)
        IN /\ heap = rb.heap
           /\ lists = SetToBag({ra.list}) (+) SetToBag({rb.list})
           /\ last = Call("init", NoArg, NoArg, 0, None, <<>>, FALSE, NoDrop)
           /\ it = NoIter
           /\ out = <<>>
           /\ cmp = [op |-> "none", a |-> ra.list, b |-> rb.list, res |-> FALSE]

Compared(op, res) == [op |-> op, a |-> cmp.a, b |-> cmp.b, res |-> res]

\* a == b
DoEq ==
    /\ cmp' = Compared("eq", ListEq(heap, cmp.a, cmp.b))
    /\ UNCHANGED <<heap, lists, last, it, out>>

\* a != b
DoNe ==
    /\ cmp' = Compared("ne", ListNe(heap, cmp.a, cmp.b))
    /\ UNCHANGED <<heap, lists, last, it, out>>

\* a.partial_cmp(&b)
DoPartialCmp ==
    /\ cmp' = Compared("partial_cmp", ListPartialCmp(heap, cmp.a, cmp.b))
    /\ UNCHANGED <<heap, lists, last, it, out>>

CmpNext == DoEq \/ DoNe \/ DoPartialCmp

CmpSpec == CmpInit /\ [][CmpNext]_vars

---------------------------------------------------------------------------
(* Claims about the handles and the heap (Spec). *)

Pre == last.pre
Ok(op) == last.op = op /\ ~last.panicked

\* the handles that were live before the call just made, less one copy of l
Others(l) == Pre.lists (-) SetToBag({l})

\* s without its first n elements
DropFirst(s, n) == SubSeq(s, n + 1, Len(s))

\* C1: for every live handle, length is the number of nodes reachable from
\* front by next links, and front is None exactly when length is 0.
C1_LengthInvariant ==
    \A l \in LiveHandles(lists) :
        /\ l.length = Len(NodesOf(heap, l.front))
        /\ NodeSet(heap, l.front) \subseteq Allocated(heap)
        /\ (l.front = None) <=> (l.length = 0)

\* C1 witness: after a drop, a handle made by tailn or lastn into a chain of
\* at least two nodes is still live.
C1_Witness ==
    /\ last.op = "drop"
    /\ \E l, m \in LiveHandles(lists) :
          /\ l.length >= 2
          /\ m.length = 1
          /\ m.front \in NodeSet(heap, l.front)

\* C2: append returns the list elem followed by the elements of L, of length
\* len(L) + 1 and head elem; L and every other live handle stay live with the
\* sequence and length they had; k appends to an empty list (from_iter) give
\* length k and head the value appended last.
C2_AppendNonDestructive ==
    /\ last.op = "append" =>
          /\ ~last.panicked
          /\ ListSeq(heap, last.dst) = <<last.elem>> \o ListSeq(Pre.heap, last.src)
          /\ ListLen(last.dst) = ListLen(last.src) + 1
          /\ ListHead(heap, last.dst) = <<last.elem>>
          /\ \A l \in LiveHandles(Pre.lists) :
                /\ CopiesIn(l, lists) >= CopiesIn(l, Pre.lists)
                /\ ListSeq(heap, l) = ListSeq(Pre.heap, l)
                /\ ListLen(l) = Len(ListSeq(heap, l))
    /\ last.op = "from_iter" =>
          /\ ListLen(last.dst) = Len(last.input)
          /\ last.input # <<>> =>
                ListHead(heap, last.dst) = <<last.input[Len(last.input)]>>

\* C2 witness: an append to a non-empty list L while a handle other than L
\* (a clone of L or a different list) is live and non-empty.
C2_Witness ==
    /\ Ok("append")
    /\ ListLen(last.src) >= 1
    /\ \E l \in LiveHandles(Pre.lists) :
          /\ ListLen(l) >= 1
          /\ l # last.src \/ CopiesIn(l, Pre.lists) >= 2

\* C3: tailn(n) never panics and returns the elements after the first n, of
\* length max(0, len - n), the empty list when n >= len; tailn(0) is L,
\* tail() is tailn(1), and tailn(a).tailn(b) is tailn(a + b).
C3_Tailn ==
    /\ last.op \in {"tailn", "tail"} =>
          /\ ~last.panicked
          /\ ListSeq(heap, last.dst) = DropFirst(ListSeq(Pre.heap, last.src), last.n)
    /\ \A l \in LiveHandles(lists) :
          /\ \A n \in Counts(l) :
                LET r == ListTailn(heap, l, n)
                IN /\ ~r.panicked
                   /\ ListSeq(r.heap, r.list) = DropFirst(ListSeq(heap, l), n)
                   /\ ListLen(r.list) = Max(0, ListLen(l) - n)
                   /\ n >= ListLen(l) => r.list = ListNew
                   /\ n = 0 => r.list = l
                   /\ n = 1 => ListTail(heap, l).list = r.list
          /\ \A a, b \in Counts(l) :
                LET r1 == ListTailn(heap, l, a)
                    r2 == ListTailn(r1.heap, r1.list, b)
                    r3 == ListTailn(heap, l, a + b)
                IN /\ ~r2.panicked /\ ~r3.panicked
                   /\ r2.list = r3.list

\* C3 witness: a tailn(n) with 1 <= n < len has been made.
C3_Witness ==
    /\ Ok("tailn")
    /\ 2 <= last.n + 1 /\ last.n + 1 <= ListLen(last.src)
    /\ ListLen(last.dst) >= 1

\* C4: a node is allocated exactly when some live handle reaches it, and its
\* strong count is the number of handles and links that point to it; a drop
\* destroys no node that another live handle reaches and leaves the other
\* handles' sequences as they were; with no handle left no node is left.
C4_AllocatedIffReachable ==
    /\ Allocated(heap) = Reach(heap, lists)
    /\ \A id \in Allocated(heap) : heap[id].strong = Referrers(heap, lists, id)
    /\ last.op = "drop" =>
          /\ lists = Others(last.src)
          /\ {d.node : d \in last.destroyed} \cap Reach(Pre.heap, Others(last.src)) = {}
          /\ \A l \in LiveHandles(lists) : ListSeq(heap, l) = ListSeq(Pre.heap, l)
    /\ lists = EmptyBag => Allocated(heap) = {}

\* C4 witness: a drop destroyed a node and left a suffix of the dropped list
\* alive for another handle.
C4_Witness ==
    /\ last.op = "drop"
    /\ last.destroyed # {}
    /\ \E l \in LiveHandles(lists) :
          /\ ListLen(l) >= 1
          /\ l.front \in NodeSet(Pre.heap, last.src.front)

\* the nodes only the handle l reached before the call just made
OwnedOnlyBy(l) == NodeSet(Pre.heap, l.front) \ Reach(Pre.heap, Others(l))

\* C5: every node a drop of a handle destroys has had its next link taken
\* (None) and is destroyed outside any other node's destructor, and the loop
\* looks at no more nodes than the handle's uniquely-owned prefix plus one.
C5_NonRecursiveTeardown ==
    last.op = "drop" =>
        /\ \A d \in last.destroyed : d.next = None /\ d.level = 0
        /\ {d.node : d \in last.destroyed} = OwnedOnlyBy(last.src)
        /\ last.visited <= Cardinality(OwnedOnlyBy(last.src)) + 1

\* C5 witness: a drop destroyed two nodes and stopped at a third, shared one.
C5_Witness ==
    /\ last.op = "drop"
    /\ Cardinality(last.destroyed) >= 2
    /\ last.visited = Cardinality(last.destroyed) + 1

\* C10: from_iter yields a list as long as the input whose front-to-back
\* order is the reverse of the input's order, so the reversed input yields
\* the original order.
C10_FromIterReverses ==
    last.op = "from_iter" =>
        /\ ~last.panicked
        /\ ListLen(last.dst) = Len(last.input)
        /\ ListSeq(heap, last.dst) = Reverse(last.input)
        /\ \A x \in {Reverse(last.input)} :
              last.input = Reverse(x) => ListSeq(heap, last.dst) = x

\* C10 witness: a list was collected from an input of two different values.
C10_Witness ==
    /\ Ok("from_iter")
    /\ Len(last.input) >= 2
    /\ last.input[1] # last.input[2]

---------------------------------------------------------------------------
(* Claims about the iterator (IterSpec). *)

\* C9: after j calls of next() on the iterator of a list of k elements, the
\* first min(j, k) calls returned the elements in front-to-back order, every
\* later call returned None, and size_hint is (r, Some(r)) for r = k - j, or
\* 0 once the iterator is exhausted: the count never goes below 0.
C9_IterExact ==
    it.live =>
        LET s == ListSeq(heap, it.src)
            k == ListLen(it.src)
            j == Len(out)
            r == Max(k - j, 0)
        IN /\ k = Len(s)
           /\ \A i \in 1..j : out[i] = IF i <= k THEN <<s[i]>> ELSE <<>>
           /\ it.iter.nelem >= 0
           /\ IterSizeHint(it.iter) = <<r, <<r>>>>

\* C9 witness: next() was called twice more after the iterator of a list of
\* two or more elements was exhausted.
C9_Witness ==
    /\ it.live
    /\ ListLen(it.src) >= 2
    /\ Len(out) >= ListLen(it.src) + 2

---------------------------------------------------------------------------
(* Claims about the comparisons (CmpSpec). *)

SeqA == ListSeq(heap, cmp.a)
SeqB == ListSeq(heap, cmp.b)
Common == 1..(IF Len(SeqA) <= Len(SeqB) THEN Len(SeqA) ELSE Len(SeqB))

\* same length and all corresponding elements equal
SeqEqual == Len(SeqA) = Len(SeqB) /\ \A i \in Common : ElemEq(SeqA[i], SeqB[i])

\* the positions whose pair does not compare Equal
Differing == {i \in Common : ElemPartialCmp(SeqA[i], SeqB[i]) # "Equal"}

\* the lexicographic order of SeqA and SeqB
Lexicographic ==
    IF Differing # {}
    THEN ElemPartialCmp(SeqA[Min(Differing)], SeqB[Min(Differing)])
    ELSE IF Len(SeqA) < Len(SeqB) THEN "Less"
    ELSE IF Len(SeqA) > Len(SeqB) THEN "Greater"
    ELSE "Equal"

HasNaN(s) == \E i \in 1..Len(s) : s[i] = NaN

AllOrderingsFalse ==
    /\ ~ListLt(heap, cmp.a, cmp.b)
    /\ ~ListGt(heap, cmp.a, cmp.b)
    /\ ~ListLe(heap, cmp.a, cmp.b)
    /\ ~ListGe(heap, cmp.a, cmp.b)

\* C6: a.ne(b) is true exactly when a.eq(b) is false, and a.eq(b) holds iff
\* the lists have the same length and all corresponding elements are equal.
C6_NeNegatesEq ==
    /\ cmp.op = "eq" => (cmp.res <=> SeqEqual)
    /\ cmp.op = "ne" => (cmp.res <=> ~ListEq(heap, cmp.a, cmp.b))

\* C7 as claimed: whenever NaN occurs anywhere in either list, <, >, <= and
\* >= are all false for the pair.
C7_AnyNaNIncomparable ==
    (cmp.op = "partial_cmp" /\ (HasNaN(SeqA) \/ HasNaN(SeqB))) =>
        (cmp.res = "None" /\ AllOrderingsFalse)

\* C7 amended: whenever the first pair of corresponding elements that does
\* not compare Equal is incomparable, the comparison of the lists is
\* incomparable: <, >, <= and >= are all false for the pair.
C7_FirstDifferingNaNIncomparable ==
    (/\ cmp.op = "partial_cmp"
     /\ Differing # {}
     /\ ElemPartialCmp(SeqA[Min(Differing)], SeqB[Min(Differing)]) = "None") =>
        (cmp.res = "None" /\ AllOrderingsFalse)

\* C7 witness: partial_cmp met an incomparable pair after an equal one.
C7_Witness ==
    /\ cmp.op = "partial_cmp"
    /\ Differing # {}
    /\ Min(Differing) >= 2
    /\ ElemPartialCmp(SeqA[Min(Differing)], SeqB[Min(Differing)]) = "None"

\* C8: partial_cmp is lexicographic: the result of the first pair that does
\* not compare Equal; with every compared pair Equal the shorter list is
\* Less, the longer Greater, and lists of equal length are Equal.
C8_Lexicographic ==
    cmp.op = "partial_cmp" =>
        /\ cmp.res = Lexicographic
        /\ (Len(SeqA) = 0 /\ Len(SeqB) > 0) => ListLt(heap, cmp.a, cmp.b)
        /\ (Len(SeqA) < Len(SeqB) /\ SubSeq(SeqB, 1, Len(SeqA)) = SeqA /\ ~HasNaN(SeqA))
              => ListLt(heap, cmp.a, cmp.b)

\* C8 witness: partial_cmp of a non-empty proper prefix with its extension.
C8_Witness ==
    /\ cmp.op = "partial_cmp"
    /\ Len(SeqA) >= 1
    /\ Len(SeqA) < Len(SeqB)
    /\ Differing = {}
    /\ cmp.res = "Less"

===========================================================================
